---- MODULE Spec2Model ----
(***************************************************************************)
(* Model of the transaction handler of go-algorand (package data,          *)
(* TxHandler): the gossip handler processIncomingTxn, the dispatcher       *)
(* goroutine backlogWorker with its two channels, the verification tasks   *)
(* asyncVerifySignature run by the execution pool, Start / Stop, and the   *)
(* solicited path (solicitedTxHandler.Handle, processDecoded).             *)
(***************************************************************************)
EXTENDS Integers, Sequences, FiniteSets, TLC

(* ------------------------------ bounds -------------------------------- *)

\* capacity of both channels (1000 in the source, scaled down here)
txBacklogSize == 1
\* number of calls of the gossip handler in one behaviour
MaxCalls == 2
\* the rounds the ledger passes through (it starts at round 0)
Rounds == {0, 1}

(* ------------------------------ inputs -------------------------------- *)

\* A wire record: the encoding of one signed transaction.  form "canon" is
\* the canonical encoding, "alt" another byte string that decodes to the
\* same transaction, "corrupt" a truncated or undecodable record.
Rec(t, f) == [txid |-> t, form |-> f]

\* signed transactions are named by their transaction id; 3 and 5 carry
\* signatures that do not verify
BadSig == {3, 5}

\* the messages the network delivers: an empty one, two with a corrupt
\* record (first and second), a single transaction from either peer, a
\* group of two whose first record is not canonically encoded, and a
\* transaction whose signature is bad
RawMsgs ==
    { [Sender |-> "p1", Data |-> << >>],
      [Sender |-> "p2", Data |-> << Rec(0, "corrupt") >>],
      [Sender |-> "p1", Data |-> << Rec(1, "canon"), Rec(0, "corrupt") >>],
      [Sender |-> "p1", Data |-> << Rec(1, "canon") >>],
      [Sender |-> "p2", Data |-> << Rec(1, "canon") >>],
      [Sender |-> "p2", Data |-> << Rec(2, "alt"), Rec(4, "canon") >>],
      [Sender |-> "p1", Data |-> << Rec(3, "canon") >> ] }

(* ------------------------------- state -------------------------------- *)

VARIABLES
    backlogQueue,            \* chan *txBacklogMsg, capacity txBacklogSize
    postVerificationQueue,   \* chan *txBacklogMsg, capacity txBacklogSize
    tasks,                   \* tasks accepted by txVerificationPool, not yet run
    pc,                      \* position of the backlogWorker goroutine
    cur,                     \* << >> or <<wi>>: the item backlogWorker holds
    cancelled,               \* handler.ctx is done
    backlogWg,               \* counter of the WaitGroup
    stopPc,                  \* position of the caller of Stop
    txPool,                  \* transaction ids the pool remembers
    latest,                  \* ledger.Latest()
    handled,                 \* transactionMessagesHandled
    droppedBacklog,          \* transactionMessagesDroppedFromBacklog
    droppedPool,             \* transactionMessagesDroppedFromPool
    calls,                   \* the calls of processIncomingTxn so far: the
                             \* message, the action returned, and the pool
                             \* as it was at the call
    relays,                  \* the calls of net.Relay, in order
    disconnects,             \* the calls of net.Disconnect, in order
    hist,                    \* per item: how often each stage handled it
    order,                   \* the ids of the items in the order they were
                             \* appended to postVerificationQueue (res) and
                             \* passed to postprocessCheckedTxn (post)
    solicited,               \* the calls of solicitedTxHandler.Handle so far
    lsig, b,                 \* LogicSig.Equal: the receiver and the argument
    equal,                   \* LogicSig.Equal: the value returned
    vgroup,                  \* a verification task on its own: its group
    vresult,                 \* ... the error it leaves and the calls it made
    tosend,                  \* sendTransactionMsgpack: protocol.Encode(tx)
    devErrAt,                \* ... the Exchange that fails (0: none does)
    replyLong,               \* ... the last reply is longer than a signature
    exchanges,               \* ... the messages passed to dev.Exchange
    signErr,                 \* ... the error returned
    dbTest,                  \* which test of the database accessor runs
    committed,               \* the rows committed to the database file
    wtx,                     \* << >> or <<rows>>: the open write transaction
                             \* of accessor acc and the rows it has inserted
    tpc,                     \* position of each goroutine of the test
    nrows,                   \* TestDBConcurrency: the counts main has read
    lastInsert,              \* TestDBConcurrencyRW: lastInsert
    started,                 \* TestDBConcurrencyRW: started is closed
    writerI,                 \* TestDBConcurrencyRW: the writer's i
    rid,                     \* TestDBConcurrencyRW: the id each reader loaded
    selects                  \* TestDBConcurrencyRW: the ids selected and
                             \* whether the row was found

\* the state of the transaction handler
handlerVars == << backlogQueue, postVerificationQueue, tasks, pc, cur,
                  cancelled, backlogWg, stopPc, txPool, latest, handled,
                  droppedBacklog, droppedPool, calls, relays, disconnects,
                  hist, order, solicited >>

\* the state of the other components, which the handler never touches
lsigVars == << lsig, b, equal >>
verifyVars == << vgroup, vresult >>
walletVars == << tosend, devErrAt, replyLong, exchanges, signErr >>
dbVars == << dbTest, committed, wtx, tpc, nrows, lastInsert, started, writerI,
            rid, selects >>
offside == << lsigVars, verifyVars, walletVars, dbVars >>

vars == << handlerVars, offside >>

chans == << backlogQueue, postVerificationQueue >>
counters == << handled, droppedBacklog, droppedPool >>
netlog == << relays, disconnects >>

Ids == 1..MaxCalls

\* a txBacklogMsg; id names the call of processIncomingTxn that made it
MkItem(n, rawmsg, group) ==
    [ id |-> n, rawmsg |-> rawmsg, unverifiedTxGroup |-> group,
      proto |-> 0, spec |-> 0, verificationErr |-> 0 ]

\* enq / dropB: appended to, or dropped at, backlogQueue; fr: passed to
\* checkAlreadyCommitted; sub: submitted to the pool; res / dropP: appended
\* to, or dropped at, postVerificationQueue; post: passed to
\* postprocessCheckedTxn; adm: remembered by the pool; stop: why
\* checkAlreadyCommitted reported processingDone ("test", "header")
Stage0 == [enq |-> 0, dropB |-> 0, fr |-> 0, sub |-> 0, res |-> 0,
           dropP |-> 0, post |-> 0, adm |-> 0, stop |-> "no"]

Bump(h, i, f) == [h EXCEPT ![i][f] = @ + 1]

(* ------------------------- external collaborators --------------------- *)

\* protocol.Decode of one wire record: the transaction, or an error
DecodeErr(rec) == rec.form = "corrupt"
DecodeTxn(rec) == rec.txid

\* protocol.Encode: always the canonical form
Encode(stxn) == Rec(stxn, "canon")

\* verify.Txn: 0 is nil, otherwise the error names the failing transaction
VerifyTxn(stxn, spec, proto) == IF stxn \in BadSig THEN stxn ELSE 0

Ran(seq) == { seq[i] : i \in 1..Len(seq) }

\* txPool.Test: a group holding a transaction the pool already remembers
\* is rejected
TxPoolTest(group) == Ran(group) \cap txPool = {}

\* txPool.Remember: refuses what Test refuses
TxPoolRemember(group) == Ran(group) \cap txPool = {}

\* ledger.BlockHdr(latest): the header's protocol and special addresses,
\* both named by the round; 0 is left for the zero value of the fields
HdrProtocol(rnd) == rnd + 1
HdrSpecial(rnd) == rnd + 1

(* ---------------------------- pure helpers ---------------------------- *)

\* mutant: a record that does not decode ends the loop like io.EOF
RECURSIVE decodeLoop_ErrorAsEOF(_, _, _)
decodeLoop_ErrorAsEOF(data, ntx, group) ==
    IF ntx = Len(data) \/ DecodeErr(data[ntx + 1])
    THEN [err |-> FALSE, ntx |-> ntx, group |-> group]
    ELSE decodeLoop_ErrorAsEOF(data, ntx + 1,
                               Append(group, DecodeTxn(data[ntx + 1])))

\* the decoding loop of processIncomingTxn, from record ntx+1 on
RECURSIVE decodeLoop(_, _, _)
decodeLoop(data, ntx, group) ==
    IF ntx = Len(data)
    THEN [err |-> FALSE, ntx |-> ntx, group |-> group]
    ELSE IF DecodeErr(data[ntx + 1])
         THEN [err |-> TRUE, ntx |-> ntx, group |-> group]
         ELSE decodeLoop(data, ntx + 1, Append(group, DecodeTxn(data[ntx + 1])))

RECURSIVE reencode(_)
reencode(stxns) ==
    IF stxns = << >> THEN << >>
    ELSE << Encode(Head(stxns)) >> \o reencode(Tail(stxns))

\* mutant: the loop has no break, so the error left is the last
\* transaction's
RECURSIVE verifyLoop_NoBreak(_, _, _)
verifyLoop_NoBreak(group, spec, proto) ==
    IF group = << >> THEN 0
    ELSE IF Len(group) = 1
         THEN VerifyTxn(Head(group), spec, proto)
         ELSE verifyLoop_NoBreak(Tail(group), spec, proto)

\* the loop of asyncVerifySignature: the error left on the item
RECURSIVE verifyLoop(_, _, _)
verifyLoop(group, spec, proto) ==
    IF group = << >> THEN 0
    ELSE LET e == VerifyTxn(Head(group), spec, proto)
         IN  IF e # 0 THEN e ELSE verifyLoop(Tail(group), spec, proto)

\* mutant: the error of txPool.Test is not looked at
checkAlreadyCommitted_IgnoreTest(tx, hdrOK) ==
    IF ~hdrOK
    THEN [done |-> TRUE, why |-> "header", tx |-> tx]
    ELSE [done |-> FALSE, why |-> "no",
          tx |-> [tx EXCEPT !.proto = HdrProtocol(latest),
                            !.spec = HdrSpecial(latest)]]

\* checkAlreadyCommitted: processingDone and the item as it leaves it
checkAlreadyCommitted(tx, hdrOK) ==
    IF ~TxPoolTest(tx.unverifiedTxGroup)
    THEN [done |-> TRUE, why |-> "test", tx |-> tx]
    ELSE IF ~hdrOK
         THEN [done |-> TRUE, why |-> "header", tx |-> tx]
         ELSE [done |-> FALSE, why |-> "no",
               tx |-> [tx EXCEPT !.proto = HdrProtocol(latest),
                                 !.spec = HdrSpecial(latest)]]

(* ------------------------------- Init --------------------------------- *)

\* the other components, not in use
LsigIdle ==
    /\ lsig = [Logic |-> << >>, Sig |-> 0, Msig |-> 0, Args |-> << >>]
    /\ b = [Logic |-> << >>, Sig |-> 0, Msig |-> 0, Args |-> << >>]
    /\ equal = << >>

VerifyIdle ==
    /\ vgroup = << >>
    /\ vresult = << >>

WalletIdle ==
    /\ tosend = << >>
    /\ devErrAt = 0
    /\ replyLong = FALSE
    /\ exchanges = << >>
    /\ signErr = << >>

DbIdle ==
    /\ dbTest = "none"
    /\ committed = {}
    /\ wtx = << >>
    /\ tpc = [main |-> "done", g |-> "done", w |-> "done", r1 |-> "done",
              r2 |-> "done"]
    /\ nrows = << >>
    /\ lastInsert = 0
    /\ started = FALSE
    /\ writerI = 1
    /\ rid = [r1 |-> 0, r2 |-> 0]
    /\ selects = {}

\* the handler as MakeTxHandler leaves it
HandlerInit ==
    /\ backlogQueue = << >>
    /\ postVerificationQueue = << >>
    /\ tasks = {}
    /\ pc = "new"
    /\ cur = << >>
    /\ cancelled = FALSE
    /\ backlogWg = 0
    /\ stopPc = "idle"
    /\ txPool = {}
    /\ latest = 0
    /\ handled = 0
    /\ droppedBacklog = 0
    /\ droppedPool = 0
    /\ calls = << >>
    /\ relays = << >>
    /\ disconnects = << >>
    /\ hist = [i \in Ids |-> Stage0]
    /\ order = [res |-> << >>, post |-> << >>]
    /\ solicited = << >>

Init ==
    /\ HandlerInit
    /\ LsigIdle
    /\ VerifyIdle
    /\ WalletIdle
    /\ DbIdle

(* --------------------------- gossip handler --------------------------- *)

\* mutant: the default case drops the item without counting it
EnqueueBacklogQueue_NoCount(item) ==
    IF Len(backlogQueue) < txBacklogSize
    THEN /\ backlogQueue' = Append(backlogQueue, item)
         /\ hist' = Bump(hist, item.id, "enq")
         /\ UNCHANGED droppedBacklog
    ELSE /\ hist' = Bump(hist, item.id, "dropB")
         /\ UNCHANGED << backlogQueue, droppedBacklog >>

\* mutant: the channel is made one slot too small
EnqueueBacklogQueue_OffByOne(item) ==
    IF Len(backlogQueue) < txBacklogSize - 1
    THEN /\ backlogQueue' = Append(backlogQueue, item)
         /\ hist' = Bump(hist, item.id, "enq")
         /\ UNCHANGED droppedBacklog
    ELSE /\ droppedBacklog' = droppedBacklog + 1
         /\ hist' = Bump(hist, item.id, "dropB")
         /\ UNCHANGED backlogQueue

\* mutant: a full queue makes room by discarding its oldest item
EnqueueBacklogQueue_DropOldest(item) ==
    IF Len(backlogQueue) < txBacklogSize
    THEN /\ backlogQueue' = Append(backlogQueue, item)
         /\ hist' = Bump(hist, item.id, "enq")
         /\ UNCHANGED droppedBacklog
    ELSE /\ backlogQueue' = Append(Tail(backlogQueue), item)
         /\ droppedBacklog' = droppedBacklog + 1
         /\ hist' = Bump(Bump(hist, item.id, "enq"),
                         Head(backlogQueue).id, "dropB")

\* the select at the end of processIncomingTxn
EnqueueBacklogQueue(item) ==
    IF Len(backlogQueue) < txBacklogSize
    THEN /\ backlogQueue' = Append(backlogQueue, item)
         /\ hist' = Bump(hist, item.id, "enq")
         /\ UNCHANGED droppedBacklog
    ELSE /\ droppedBacklog' = droppedBacklog + 1
         /\ hist' = Bump(hist, item.id, "dropB")
         /\ UNCHANGED backlogQueue

\* the value processIncomingTxn returns, as the network layer sees it
Return(rawmsg, action) ==
    calls' = Append(calls, [rawmsg |-> rawmsg, action |-> action,
                            pool |-> txPool])

processIncomingTxn(rawmsg) ==
    /\ Len(calls) < MaxCalls
    /\ LET d == decodeLoop(rawmsg.Data, 0, << >>)
       IN  IF d.err \/ d.ntx = 0
           THEN /\ Return(rawmsg, "Disconnect")
                /\ UNCHANGED << backlogQueue, droppedBacklog, hist >>
           ELSE /\ EnqueueBacklogQueue(MkItem(Len(calls) + 1, rawmsg, d.group))
                /\ Return(rawmsg, "Ignore")
    /\ UNCHANGED << postVerificationQueue, tasks, pc, cur, cancelled,
                    backlogWg, stopPc, txPool, latest, handled, droppedPool,
                    relays, disconnects >>
    /\ UNCHANGED << order, solicited >>
    /\ UNCHANGED offside

(* ----------------------------- Start / Stop --------------------------- *)

\* mutant: Start without backlogWg.Add(1)
Start_NoAdd ==
    /\ pc = "new"
    /\ pc' = "select1"
    /\ UNCHANGED << chans, tasks, cur, cancelled, backlogWg, stopPc, txPool,
                    latest, counters, calls, netlog, hist >>
    /\ UNCHANGED << order, solicited >>
    /\ UNCHANGED offside

Start ==
    /\ pc = "new"
    /\ backlogWg' = backlogWg + 1
    /\ pc' = "select1"
    /\ UNCHANGED << chans, tasks, cur, cancelled, stopPc, txPool, latest,
                    counters, calls, netlog, hist >>
    /\ UNCHANGED << order, solicited >>
    /\ UNCHANGED offside

\* Stop, first statement: handler.ctxCancel()
StopCancel ==
    /\ pc # "new"
    /\ stopPc = "idle"
    /\ cancelled' = TRUE
    /\ stopPc' = "wait"
    /\ UNCHANGED << chans, tasks, pc, cur, backlogWg, txPool, latest,
                    counters, calls, netlog, hist >>
    /\ UNCHANGED << order, solicited >>
    /\ UNCHANGED offside

\* mutant: Stop without backlogWg.Wait()
StopReturn_NoWait ==
    /\ stopPc = "wait"
    /\ stopPc' = "returned"
    /\ UNCHANGED << chans, tasks, pc, cur, cancelled, backlogWg, txPool,
                    latest, counters, calls, netlog, hist >>
    /\ UNCHANGED << order, solicited >>
    /\ UNCHANGED offside

\* Stop, second statement: handler.backlogWg.Wait() returns
StopReturn ==
    /\ stopPc = "wait"
    /\ backlogWg = 0
    /\ stopPc' = "returned"
    /\ UNCHANGED << chans, tasks, pc, cur, cancelled, backlogWg, txPool,
                    latest, counters, calls, netlog, hist >>
    /\ UNCHANGED << order, solicited >>
    /\ UNCHANGED offside

(* ----------------------------- dispatcher ----------------------------- *)

\* first select, case wi := <-postVerificationQueue
Select1Recv ==
    /\ pc = "select1"
    /\ postVerificationQueue # << >>
    /\ cur' = << Head(postVerificationQueue) >>
    /\ postVerificationQueue' = Tail(postVerificationQueue)
    /\ pc' = "postprocess"
    /\ UNCHANGED << backlogQueue, tasks, cancelled, backlogWg, stopPc,
                    txPool, latest, counters, calls, netlog, hist >>
    /\ UNCHANGED << order, solicited >>
    /\ UNCHANGED offside

\* mutant: the first select falls through whatever the queue holds
Select1Default_NoCheck ==
    /\ pc = "select1"
    /\ pc' = "select2"
    /\ UNCHANGED << chans, tasks, cur, cancelled, backlogWg, stopPc, txPool,
                    latest, counters, calls, netlog, hist >>
    /\ UNCHANGED << order, solicited >>
    /\ UNCHANGED offside

\* first select, default: taken only when no case is ready
Select1Default ==
    /\ pc = "select1"
    /\ postVerificationQueue = << >>
    /\ pc' = "select2"
    /\ UNCHANGED << chans, tasks, cur, cancelled, backlogWg, stopPc, txPool,
                    latest, counters, calls, netlog, hist >>
    /\ UNCHANGED << order, solicited >>
    /\ UNCHANGED offside

\* second select, case wi := <-backlogQueue
Select2Backlog ==
    /\ pc = "select2"
    /\ backlogQueue # << >>
    /\ cur' = << Head(backlogQueue) >>
    /\ backlogQueue' = Tail(backlogQueue)
    /\ pc' = "fastreject"
    /\ UNCHANGED << postVerificationQueue, tasks, cancelled, backlogWg,
                    stopPc, txPool, latest, counters, calls,
                    netlog, hist >>
    /\ UNCHANGED << order, solicited >>
    /\ UNCHANGED offside

\* second select, case wi := <-postVerificationQueue
Select2Post ==
    /\ pc = "select2"
    /\ postVerificationQueue # << >>
    /\ cur' = << Head(postVerificationQueue) >>
    /\ postVerificationQueue' = Tail(postVerificationQueue)
    /\ pc' = "postprocess"
    /\ UNCHANGED << backlogQueue, tasks, cancelled, backlogWg, stopPc,
                    txPool, latest, counters, calls, netlog, hist >>
    /\ UNCHANGED << order, solicited >>
    /\ UNCHANGED offside

\* mutant: the second select has a default case that returns
Select2Done_Default ==
    /\ pc = "select2"
    /\ cancelled \/ (backlogQueue = << >> /\ postVerificationQueue = << >>)
    /\ pc' = "exited"
    /\ backlogWg' = backlogWg - 1
    /\ UNCHANGED << chans, tasks, cur, cancelled, stopPc, txPool, latest,
                    counters, calls, netlog, hist >>
    /\ UNCHANGED << order, solicited >>
    /\ UNCHANGED offside

\* second select, case <-handler.ctx.Done(): return, and the deferred
\* backlogWg.Done()
Select2Done ==
    /\ pc = "select2"
    /\ cancelled
    /\ pc' = "exited"
    /\ backlogWg' = backlogWg - 1
    /\ UNCHANGED << chans, tasks, cur, cancelled, stopPc, txPool, latest,
                    counters, calls, netlog, hist >>
    /\ UNCHANGED << order, solicited >>
    /\ UNCHANGED offside

\* txVerificationPool.EnqueueBacklog(ctx, asyncVerifySignature, wi, nil)
EnqueueBacklog(wi) ==
    /\ tasks' = tasks \cup {wi}
    /\ hist' = Bump(Bump(hist, wi.id, "fr"), wi.id, "sub")

\* mutant: after handing the item to the pool the dispatcher goes on to
\* post-process it
FastReject_KeepsItem ==
    /\ pc = "fastreject"
    /\ \E hdrOK \in BOOLEAN :
          LET r == checkAlreadyCommitted(cur[1], hdrOK)
          IN  IF r.done
              THEN /\ hist' = [Bump(hist, cur[1].id, "fr")
                                EXCEPT ![cur[1].id].stop = r.why]
                   /\ cur' = << >>
                   /\ pc' = "select1"
                   /\ UNCHANGED tasks
              ELSE /\ EnqueueBacklog(r.tx)
                   /\ cur' = << r.tx >>
                   /\ pc' = "postprocess"
    /\ UNCHANGED << chans, cancelled, backlogWg, stopPc, txPool, latest,
                    counters, calls, netlog >>
    /\ UNCHANGED << order, solicited >>
    /\ UNCHANGED offside

\* mutant: the dispatcher verifies the group itself and post-processes it
\* at once, without pool and postVerificationQueue
FastReject_Inline ==
    /\ pc = "fastreject"
    /\ \E hdrOK \in BOOLEAN :
          LET r == checkAlreadyCommitted(cur[1], hdrOK)
          IN  IF r.done
              THEN /\ hist' = [Bump(hist, cur[1].id, "fr")
                                EXCEPT ![cur[1].id].stop = r.why]
                   /\ cur' = << >>
                   /\ pc' = "select1"
              ELSE /\ hist' = Bump(hist, cur[1].id, "fr")
                   /\ cur' = << [r.tx EXCEPT !.verificationErr =
                                   verifyLoop(r.tx.unverifiedTxGroup,
                                              r.tx.spec, r.tx.proto)] >>
                   /\ pc' = "postprocess"
    /\ UNCHANGED << chans, tasks, cancelled, backlogWg, stopPc, txPool,
                    latest, counters, calls, netlog >>
    /\ UNCHANGED << order, solicited >>
    /\ UNCHANGED offside

\* mutant: the result of checkAlreadyCommitted is not looked at
FastReject_SubmitsAnyway ==
    /\ pc = "fastreject"
    /\ \E hdrOK \in BOOLEAN :
          LET r == checkAlreadyCommitted(cur[1], hdrOK)
          IN  /\ tasks' = tasks \cup {r.tx}
              /\ hist' = [Bump(Bump(hist, cur[1].id, "fr"), cur[1].id, "sub")
                            EXCEPT ![cur[1].id].stop = r.why]
    /\ cur' = << >>
    /\ pc' = "select1"
    /\ UNCHANGED << chans, cancelled, backlogWg, stopPc, txPool, latest,
                    counters, calls, netlog >>
    /\ UNCHANGED << order, solicited >>
    /\ UNCHANGED offside

\* the body of case wi := <-backlogQueue: checkAlreadyCommitted, then
\* either continue or hand the item to the pool
FastReject ==
    /\ pc = "fastreject"
    /\ \E hdrOK \in BOOLEAN :
          LET r == checkAlreadyCommitted(cur[1], hdrOK)
          IN  IF r.done
              THEN /\ hist' = [Bump(hist, cur[1].id, "fr")
                                EXCEPT ![cur[1].id].stop = r.why]
                   /\ UNCHANGED tasks
              ELSE EnqueueBacklog(r.tx)
    /\ cur' = << >>
    /\ pc' = "select1"
    /\ UNCHANGED << chans, cancelled, backlogWg, stopPc, txPool, latest,
                    counters, calls, netlog >>
    /\ UNCHANGED << order, solicited >>
    /\ UNCHANGED offside

\* mutant: Relay is called without the sender to leave out
postprocessCheckedTxn_RelayAll(wi) ==
    IF wi.verificationErr # 0
    THEN /\ disconnects' = Append(disconnects,
                                  [id |-> wi.id, peer |-> wi.rawmsg.Sender])
         /\ hist' = Bump(hist, wi.id, "post")
         /\ UNCHANGED << handled, txPool, relays >>
    ELSE /\ handled' = handled + 1
         /\ IF TxPoolRemember(wi.unverifiedTxGroup)
            THEN /\ txPool' = txPool \cup Ran(wi.unverifiedTxGroup)
                 /\ relays' = Append(relays,
                                     [id |-> wi.id,
                                      data |-> reencode(wi.unverifiedTxGroup),
                                      except |-> "nobody"])
                 /\ hist' = Bump(Bump(hist, wi.id, "post"), wi.id, "adm")
            ELSE /\ hist' = Bump(hist, wi.id, "post")
                 /\ UNCHANGED << txPool, relays >>
         /\ UNCHANGED disconnects

\* mutant: the handled counter is incremented before the error is looked at
postprocessCheckedTxn_CountFirst(wi) ==
    /\ handled' = handled + 1
    /\ IF wi.verificationErr # 0
       THEN /\ disconnects' = Append(disconnects,
                                     [id |-> wi.id, peer |-> wi.rawmsg.Sender])
            /\ hist' = Bump(hist, wi.id, "post")
            /\ UNCHANGED << txPool, relays >>
       ELSE /\ IF TxPoolRemember(wi.unverifiedTxGroup)
               THEN /\ txPool' = txPool \cup Ran(wi.unverifiedTxGroup)
                    /\ relays' = Append(relays,
                                     [id |-> wi.id,
                                      data |-> reencode(wi.unverifiedTxGroup),
                                      except |-> wi.rawmsg.Sender])
                    /\ hist' = Bump(Bump(hist, wi.id, "post"), wi.id, "adm")
               ELSE /\ hist' = Bump(hist, wi.id, "post")
                    /\ UNCHANGED << txPool, relays >>
            /\ UNCHANGED disconnects

\* mutant: a group the pool refuses costs the sender its connection
postprocessCheckedTxn_DisconnectOnRefusal(wi) ==
    IF wi.verificationErr # 0
    THEN /\ disconnects' = Append(disconnects,
                                  [id |-> wi.id, peer |-> wi.rawmsg.Sender])
         /\ hist' = Bump(hist, wi.id, "post")
         /\ UNCHANGED << handled, txPool, relays >>
    ELSE /\ handled' = handled + 1
         /\ IF TxPoolRemember(wi.unverifiedTxGroup)
            THEN /\ txPool' = txPool \cup Ran(wi.unverifiedTxGroup)
                 /\ relays' = Append(relays,
                                     [id |-> wi.id,
                                      data |-> reencode(wi.unverifiedTxGroup),
                                      except |-> wi.rawmsg.Sender])
                 /\ hist' = Bump(Bump(hist, wi.id, "post"), wi.id, "adm")
                 /\ UNCHANGED disconnects
            ELSE /\ disconnects' = Append(disconnects,
                                     [id |-> wi.id, peer |-> wi.rawmsg.Sender])
                 /\ hist' = Bump(hist, wi.id, "post")
                 /\ UNCHANGED << txPool, relays >>

\* mutant: Relay sends the bytes of the message as they came in
postprocessCheckedTxn_RelayRaw(wi) ==
    IF wi.verificationErr # 0
    THEN /\ disconnects' = Append(disconnects,
                                  [id |-> wi.id, peer |-> wi.rawmsg.Sender])
         /\ hist' = Bump(hist, wi.id, "post")
         /\ UNCHANGED << handled, txPool, relays >>
    ELSE /\ handled' = handled + 1
         /\ IF TxPoolRemember(wi.unverifiedTxGroup)
            THEN /\ txPool' = txPool \cup Ran(wi.unverifiedTxGroup)
                 /\ relays' = Append(relays,
                                     [id |-> wi.id,
                                      data |-> wi.rawmsg.Data,
                                      except |-> wi.rawmsg.Sender])
                 /\ hist' = Bump(Bump(hist, wi.id, "post"), wi.id, "adm")
            ELSE /\ hist' = Bump(hist, wi.id, "post")
                 /\ UNCHANGED << txPool, relays >>
         /\ UNCHANGED disconnects

\* mutant: the handled counter is incremented only after Remember succeeded
postprocessCheckedTxn_CountAfterAdmit(wi) ==
    IF wi.verificationErr # 0
    THEN /\ disconnects' = Append(disconnects,
                                  [id |-> wi.id, peer |-> wi.rawmsg.Sender])
         /\ hist' = Bump(hist, wi.id, "post")
         /\ UNCHANGED << handled, txPool, relays >>
    ELSE /\ IF TxPoolRemember(wi.unverifiedTxGroup)
            THEN /\ handled' = handled + 1
                 /\ txPool' = txPool \cup Ran(wi.unverifiedTxGroup)
                 /\ relays' = Append(relays,
                                     [id |-> wi.id,
                                      data |-> reencode(wi.unverifiedTxGroup),
                                      except |-> wi.rawmsg.Sender])
                 /\ hist' = Bump(Bump(hist, wi.id, "post"), wi.id, "adm")
            ELSE /\ hist' = Bump(hist, wi.id, "post")
                 /\ UNCHANGED << handled, txPool, relays >>
         /\ UNCHANGED disconnects

\* mutant: the error of txPool.Remember is not looked at
postprocessCheckedTxn_IgnoreRememberErr(wi) ==
    IF wi.verificationErr # 0
    THEN /\ disconnects' = Append(disconnects,
                                  [id |-> wi.id, peer |-> wi.rawmsg.Sender])
         /\ hist' = Bump(hist, wi.id, "post")
         /\ UNCHANGED << handled, txPool, relays >>
    ELSE /\ handled' = handled + 1
         /\ txPool' = txPool \cup Ran(wi.unverifiedTxGroup)
         /\ relays' = Append(relays,
                             [id |-> wi.id,
                              data |-> reencode(wi.unverifiedTxGroup),
                              except |-> wi.rawmsg.Sender])
         /\ hist' = Bump(Bump(hist, wi.id, "post"), wi.id, "adm")
         /\ UNCHANGED disconnects

postprocessCheckedTxn(wi) ==
    IF wi.verificationErr # 0
    THEN /\ disconnects' = Append(disconnects,
                                  [id |-> wi.id, peer |-> wi.rawmsg.Sender])
         /\ hist' = Bump(hist, wi.id, "post")
         /\ UNCHANGED << handled, txPool, relays >>
    ELSE /\ handled' = handled + 1
         /\ IF TxPoolRemember(wi.unverifiedTxGroup)
            THEN /\ txPool' = txPool \cup Ran(wi.unverifiedTxGroup)
                 /\ relays' = Append(relays,
                                     [id |-> wi.id,
                                      data |-> reencode(wi.unverifiedTxGroup),
                                      except |-> wi.rawmsg.Sender])
                 /\ hist' = Bump(Bump(hist, wi.id, "post"), wi.id, "adm")
            ELSE /\ hist' = Bump(hist, wi.id, "post")
                 /\ UNCHANGED << txPool, relays >>
         /\ UNCHANGED disconnects

\* the body of either case wi := <-postVerificationQueue
PostProcess ==
    /\ pc = "postprocess"
    /\ postprocessCheckedTxn(cur[1])
    /\ cur' = << >>
    /\ pc' = "select1"
    /\ UNCHANGED << chans, tasks, cancelled, backlogWg, stopPc, latest,
                    droppedBacklog, droppedPool, calls >>
    /\ order' = [order EXCEPT !.post = Append(@, cur[1].id)]
    /\ UNCHANGED solicited
    /\ UNCHANGED offside

(* --------------------------- pool workers ----------------------------- *)

\* mutant: the send has no default case, so it waits for room
EnqueuePostVerification_Blocking(tx) ==
    /\ Len(postVerificationQueue) < txBacklogSize
    /\ postVerificationQueue' = Append(postVerificationQueue, tx)
    /\ hist' = Bump(hist, tx.id, "res")
    /\ order' = [order EXCEPT !.res = Append(@, tx.id)]
    /\ UNCHANGED droppedPool

\* mutant: the default case drops the result without counting it
EnqueuePostVerification_NoCount(tx) ==
    IF Len(postVerificationQueue) < txBacklogSize
    THEN /\ postVerificationQueue' = Append(postVerificationQueue, tx)
         /\ hist' = Bump(hist, tx.id, "res")
         /\ order' = [order EXCEPT !.res = Append(@, tx.id)]
         /\ UNCHANGED droppedPool
    ELSE /\ hist' = Bump(hist, tx.id, "dropP")
         /\ UNCHANGED << postVerificationQueue, order, droppedPool >>

\* the select at the end of asyncVerifySignature
EnqueuePostVerification(tx) ==
    IF Len(postVerificationQueue) < txBacklogSize
    THEN /\ postVerificationQueue' = Append(postVerificationQueue, tx)
         /\ hist' = Bump(hist, tx.id, "res")
         /\ order' = [order EXCEPT !.res = Append(@, tx.id)]
         /\ UNCHANGED droppedPool
    ELSE /\ droppedPool' = droppedPool + 1
         /\ hist' = Bump(hist, tx.id, "dropP")
         /\ UNCHANGED << postVerificationQueue, order >>

\* mutant: the select sits inside the loop, one non-blocking send per
\* transaction
asyncVerifySignature_SendPerTxn(t) ==
    /\ t \in tasks
    /\ tasks' = tasks \ {t}
    /\ LET v == [t EXCEPT !.verificationErr =
                     verifyLoop(t.unverifiedTxGroup, t.spec, t.proto)]
           n == Len(t.unverifiedTxGroup)
           free == txBacklogSize - Len(postVerificationQueue)
           k == IF n <= free THEN n ELSE free
       IN  /\ postVerificationQueue' =
                  postVerificationQueue \o [j \in 1..k |-> v]
           /\ droppedPool' = droppedPool + (n - k)
           /\ hist' = [hist EXCEPT ![t.id].res = @ + k,
                                   ![t.id].dropP = @ + (n - k)]
           /\ order' = [order EXCEPT !.res = @ \o [j \in 1..k |-> t.id]]
    /\ UNCHANGED << backlogQueue, pc, cur, cancelled, backlogWg, stopPc,
                    txPool, latest, handled, droppedBacklog, calls, netlog >>
    /\ UNCHANGED solicited
    /\ UNCHANGED offside

\* mutant: the task reads the ledger again before it verifies
asyncVerifySignature_FreshSnapshot(t) ==
    /\ t \in tasks
    /\ tasks' = tasks \ {t}
    /\ EnqueuePostVerification(
          [t EXCEPT !.proto = HdrProtocol(latest),
                    !.spec = HdrSpecial(latest),
                    !.verificationErr =
                       verifyLoop(t.unverifiedTxGroup, HdrSpecial(latest),
                                  HdrProtocol(latest))])
    /\ UNCHANGED << backlogQueue, pc, cur, cancelled, backlogWg, stopPc,
                    txPool, latest, handled, droppedBacklog, calls, netlog >>
    /\ UNCHANGED solicited
    /\ UNCHANGED offside

\* a worker of the pool runs one accepted task
asyncVerifySignature(t) ==
    /\ t \in tasks
    /\ tasks' = tasks \ {t}
    /\ EnqueuePostVerification(
          [t EXCEPT !.verificationErr =
                       verifyLoop(t.unverifiedTxGroup, t.spec, t.proto)])
    /\ UNCHANGED << backlogQueue, pc, cur, cancelled, backlogWg, stopPc,
                    txPool, latest, handled, droppedBacklog, calls, netlog >>
    /\ UNCHANGED solicited
    /\ UNCHANGED offside

(* --------------------------- solicited path --------------------------- *)

\* the transaction groups handed to solicitedTxHandler.Handle: a good
\* transaction (one the gossip network delivers too) and one whose
\* signature is bad
SolicitedGroups == { << 1 >>, << 3 >> }

\* processDecoded wraps the group in a txBacklogMsg that has no rawmsg
NoMsg == [Sender |-> "nobody", Data |-> << >>]

\* processDecoded: the outgoing message's Action (the zero value of an
\* OutgoingMessage is Ignore), processingDone, and whether txPool.Remember
\* took the group
processDecoded(unverifiedTxGroup, hdrOK) ==
    LET r == checkAlreadyCommitted(MkItem(0, NoMsg, unverifiedTxGroup), hdrOK)
    IN  IF r.done
        THEN [Action |-> "Ignore", processingDone |-> TRUE,
              remembered |-> FALSE]
        ELSE IF verifyLoop(unverifiedTxGroup, r.tx.spec, r.tx.proto) # 0
             THEN [Action |-> "Disconnect", processingDone |-> TRUE,
                   remembered |-> FALSE]
             ELSE IF ~TxPoolRemember(unverifiedTxGroup)
                  THEN [Action |-> "Ignore", processingDone |-> TRUE,
                        remembered |-> FALSE]
                  ELSE [Action |-> "Ignore", processingDone |-> FALSE,
                        remembered |-> TRUE]

\* mutant: Handle reports processingDone as an error
HandleErr_DoneIsError(outmsg) ==
    IF outmsg.processingDone THEN "invlid transaction" ELSE "nil"

\* the error Handle makes of the outgoing message; processingDone is
\* discarded
HandleErr(outmsg) ==
    IF outmsg.Action = "Disconnect" THEN "invlid transaction" ELSE "nil"

\* mutant: the solicited path relays what it has remembered, to every peer
Handle_Relays(txgroup) ==
    /\ solicited = << >>
    /\ \E hdrOK \in BOOLEAN :
          LET outmsg == processDecoded(txgroup, hdrOK)
          IN  /\ txPool' = IF outmsg.remembered
                           THEN txPool \cup Ran(txgroup)
                           ELSE txPool
              /\ solicited' =
                    Append(solicited,
                           [txgroup |-> txgroup, hdrOK |-> hdrOK,
                            pool |-> txPool,
                            backpressure |->
                               /\ Len(backlogQueue) = txBacklogSize
                               /\ Len(postVerificationQueue) = txBacklogSize
                               /\ pc = "exited",
                            processingDone |-> outmsg.processingDone,
                            remembered |-> outmsg.remembered,
                            err |-> HandleErr(outmsg)])
              /\ relays' = IF outmsg.remembered
                           THEN Append(relays, [id |-> 0,
                                                data |-> reencode(txgroup),
                                                except |-> "nobody"])
                           ELSE relays
    /\ UNCHANGED << chans, tasks, pc, cur, cancelled, backlogWg, stopPc,
                    latest, counters, calls, disconnects, hist, order >>
    /\ UNCHANGED offside

\* mutant: the solicited path goes through backlogQueue like a gossip
\* message
Handle_ViaQueue(txgroup) ==
    /\ solicited = << >>
    /\ Len(backlogQueue) < txBacklogSize
    /\ backlogQueue' = Append(backlogQueue, MkItem(0, NoMsg, txgroup))
    /\ solicited' =
          Append(solicited,
                 [txgroup |-> txgroup, hdrOK |-> TRUE, pool |-> txPool,
                  backpressure |-> FALSE, processingDone |-> FALSE,
                  remembered |-> FALSE, err |-> "nil"])
    /\ UNCHANGED << postVerificationQueue, tasks, pc, cur, cancelled,
                    backlogWg, stopPc, txPool, latest, counters, calls,
                    netlog, hist, order >>
    /\ UNCHANGED offside

\* one call of solicitedTxHandler.Handle, on the caller's own goroutine
Handle(txgroup) ==
    /\ solicited = << >>
    /\ \E hdrOK \in BOOLEAN :
          LET outmsg == processDecoded(txgroup, hdrOK)
          IN  /\ txPool' = IF outmsg.remembered
                           THEN txPool \cup Ran(txgroup)
                           ELSE txPool
              /\ solicited' =
                    Append(solicited,
                           [txgroup |-> txgroup, hdrOK |-> hdrOK,
                            pool |-> txPool,
                            backpressure |->
                               /\ Len(backlogQueue) = txBacklogSize
                               /\ Len(postVerificationQueue) = txBacklogSize
                               /\ pc = "exited",
                            processingDone |-> outmsg.processingDone,
                            remembered |-> outmsg.remembered,
                            err |-> HandleErr(outmsg)])
    /\ UNCHANGED << chans, tasks, pc, cur, cancelled, backlogWg, stopPc,
                    latest, counters, calls, netlog, hist, order >>
    /\ UNCHANGED offside

(* ------------------------------ ledger -------------------------------- *)

\* the ledger commits a block
AdvanceRound ==
    /\ latest + 1 \in Rounds
    /\ latest' = latest + 1
    /\ UNCHANGED << chans, tasks, pc, cur, cancelled, backlogWg, stopPc,
                    txPool, counters, calls, netlog, hist >>
    /\ UNCHANGED << order, solicited >>
    /\ UNCHANGED offside

(* ------------------------------- Next --------------------------------- *)

Worker == \E t \in tasks : asyncVerifySignature(t)

Dispatcher ==
    \/ Select1Recv
    \/ Select1Default
    \/ Select2Backlog
    \/ Select2Post
    \/ Select2Done
    \/ FastReject
    \/ PostProcess

Next ==
    \/ \E m \in RawMsgs : processIncomingTxn(m)
    \/ Start
    \/ StopCancel
    \/ StopReturn
    \/ Dispatcher
    \/ Worker
    \/ AdvanceRound

Spec == Init /\ [][Next]_vars

\* the handler together with a caller of the solicited path
Solicited == \E g \in SolicitedGroups : Handle(g)

SolicitedNext ==
    \/ Next
    \/ Solicited

SolicitedSpec == Init /\ [][SolicitedNext]_vars

\* The dispatcher goroutine and the pool's workers are scheduled fairly, Wait
\* returns once the counter is zero, and a select whose cancellation case is
\* ready again and again eventually chooses it (Go chooses uniformly among
\* the ready cases).
FairSpec ==
    /\ Spec
    /\ WF_vars(Dispatcher)
    /\ SF_vars(Select2Done)
    /\ WF_vars(Worker)
    /\ WF_vars(StopReturn)

(* ------------------------ vocabulary of the claims -------------------- *)

\* a step that takes an item from a channel
TakesBacklog == Len(backlogQueue') < Len(backlogQueue)
TakesResult == Len(postVerificationQueue') < Len(postVerificationQueue)

\* the dispatcher goroutine returns in this step
Exits == pc # "exited" /\ pc' = "exited"

\* nothing is on its way through the pipeline
Drained ==
    /\ backlogQueue = << >>
    /\ postVerificationQueue = << >>
    /\ tasks = {}
    /\ cur = << >>

(* ------------------------------- C1 ----------------------------------- *)

\* C1 as stated: whenever the dispatcher takes an item from backlogQueue,
\* postVerificationQueue is empty at that moment.
C1_AsStated == [][TakesBacklog => postVerificationQueue = << >>]_vars

\* C1 amended: the dispatcher takes an item from backlogQueue only in the
\* blocking select, which it reaches only through the default case of the
\* non-blocking select, taken when postVerificationQueue is found empty; a
\* result a worker enqueues after that check may be pending when the item
\* is taken.
C1_PriorityAtCheck ==
    [][ /\ TakesBacklog => pc = "select2"
        /\ (pc # "select2" /\ pc' = "select2") => postVerificationQueue = << >>
      ]_vars

\* the dispatcher has post-processed a result and then taken a new item
\* from backlogQueue
C1_Witness ==
    /\ pc = "fastreject"
    /\ \E i \in Ids : hist[i].post = 1

(* ------------------------------- C2 ----------------------------------- *)

\* C2: Stop, once it has cancelled the context, returns, and when it has
\* returned the dispatcher goroutine has exited.
C2_StopReturns ==
    /\ [](stopPc = "returned" => pc = "exited")
    /\ (stopPc = "wait") ~> (stopPc = "returned")

\* Stop has returned with an item in backlogQueue and a task in flight
C2_Witness ==
    /\ stopPc = "returned"
    /\ pc = "exited"
    /\ backlogQueue # << >>
    /\ tasks # {}

(* ------------------------------- C3 ----------------------------------- *)

\* C3 as stated: once the context is cancelled the dispatcher takes no
\* further item from either channel.
C3_AsStated == [][cancelled => ~(TakesBacklog \/ TakesResult)]_vars

\* C3 amended: once the context is cancelled the dispatcher eventually
\* exits, and it exits only from the blocking select, holding no item, with
\* the context cancelled; until then it may still take items (the
\* non-blocking select does not look at the context, and the blocking
\* select may choose a ready channel instead of the cancellation).
C3_ExitsAtSelect2 ==
    /\ [][Exits => cancelled /\ pc = "select2" /\ cur = << >>]_vars
    /\ (cancelled /\ pc # "new") ~> (pc = "exited")

\* the dispatcher has exited although an item it could have taken is left
C3_Witness ==
    /\ pc = "exited"
    /\ cancelled
    /\ backlogQueue # << >>
    /\ \E i \in Ids : hist[i].post = 1

(* ------------------------------- C4 ----------------------------------- *)

\* C4: after Stop has returned the dispatcher takes nothing from either
\* channel, submits nothing to the pool, admits nothing, and calls neither
\* Relay nor Disconnect; what is in the channels stays there.
C4_NothingAfterStop ==
    [][ stopPc = "returned" =>
          /\ ~TakesBacklog
          /\ ~TakesResult
          /\ tasks' \subseteq tasks
          /\ handled' = handled
          /\ relays' = relays
          /\ disconnects' = disconnects
          /\ \A i \in Ids : /\ hist'[i].fr = hist[i].fr
                            /\ hist'[i].sub = hist[i].sub
                            /\ hist'[i].post = hist[i].post
                            /\ hist'[i].adm = hist[i].adm
      ]_vars

\* Stop has returned, an item is abandoned in backlogQueue, and a worker
\* that finished later has left a result that is never taken
C4_Witness ==
    /\ stopPc = "returned"
    /\ backlogQueue # << >>
    /\ postVerificationQueue # << >>
    /\ tasks = {}

(* --------------------- what a message is, by its bytes ---------------- *)

Called == 1..Len(calls)
MsgOf(i) == calls[i].rawmsg

\* every record of the message decodes and there is at least one
Decodable(data) ==
    /\ data # << >>
    /\ \A k \in 1..Len(data) : data[k].form # "corrupt"

\* the transactions a decodable message carries, in order
GroupOf(data) == [k \in 1..Len(data) |-> data[k].txid]

\* every transaction of the message has a good signature
AllVerify(data) == \A k \in 1..Len(data) : data[k].txid \notin BadSig

TxidsOf(i) == { MsgOf(i).Data[k].txid : k \in 1..Len(MsgOf(i).Data) }

RelaysOf(i) == { k \in 1..Len(relays) : relays[k].id = i }
DisconnectsOf(i) == { k \in 1..Len(disconnects) : disconnects[k].id = i }

\* the places where item i is now
InBacklog(i) == { k \in 1..Len(backlogQueue) : backlogQueue[k].id = i }
InResults(i) ==
    { k \in 1..Len(postVerificationQueue) : postVerificationQueue[k].id = i }
InTasks(i) == { t \in tasks : t.id = i }
InHand(i) == { k \in 1..Len(cur) : cur[k].id = i }

\* the pool holds none of the group's transactions because of another
\* message or of the solicited path, so its Test and Remember accept the
\* group
PoolAccepts(i) ==
    /\ \A j \in Called \ {i} :
          hist[j].adm = 0 \/ TxidsOf(j) \cap TxidsOf(i) = {}
    /\ \A k \in 1..Len(solicited) :
          ~solicited[k].remembered
              \/ Ran(solicited[k].txgroup) \cap TxidsOf(i) = {}

(* ------------------------------- C5 ----------------------------------- *)

C6_DuplicateStopsAtFastReject ==
    \A i \in Called :
        (Decodable(MsgOf(i).Data) /\ TxidsOf(i) \subseteq calls[i].pool) =>
            /\ calls[i].action = "Ignore"
            /\ hist[i].sub = 0
            /\ InTasks(i) = {}
            /\ hist[i].res = 0
            /\ hist[i].post = 0
            /\ hist[i].adm = 0
            /\ RelaysOf(i) = {}
            /\ DisconnectsOf(i) = {}

\* the same bytes came in again after their group was admitted, and the
\* fast-reject filter has handled the second item
C6_Witness ==
    \E i \in Called : \E j \in Called :
        /\ j < i
        /\ MsgOf(j) = MsgOf(i)
        /\ hist[j].adm = 1
        /\ TxidsOf(i) \subseteq calls[i].pool
        /\ hist[i].fr = 1

(* ------------------------------- C7 ----------------------------------- *)

\* a step that is a call of the gossip handler, and the message it got
NewCall == Len(calls') = Len(calls) + 1
NewMsg == calls'[Len(calls')].rawmsg
NewAction == calls'[Len(calls')].action

\* C7: a message with no record, or with a corrupt record anywhere, is
\* answered with Disconnect; nothing is appended to backlogQueue, no
\* counter changes, and no item exists for it.
C7_MalformedDisconnects ==
    [][ (NewCall /\ ~Decodable(NewMsg.Data)) =>
          /\ NewAction = "Disconnect"
          /\ backlogQueue' = backlogQueue
          /\ handled' = handled
          /\ droppedBacklog' = droppedBacklog
          /\ droppedPool' = droppedPool
          /\ hist' = hist
      ]_vars

\* an empty message and one whose second record is corrupt were both
\* answered with Disconnect
C7_Witness ==
    \E i \in Called : \E j \in Called :
        /\ MsgOf(i).Data = << >>
        /\ calls[i].action = "Disconnect"
        /\ Len(MsgOf(j).Data) = 2
        /\ MsgOf(j).Data[2].form = "corrupt"
        /\ calls[j].action = "Disconnect"

(* ------------------------------- C8 ----------------------------------- *)

\* C8: a decodable message is answered with Ignore; when backlogQueue is
\* full the queue is unchanged and the dropped-from-backlog counter grows by
\* one, otherwise the item is appended and no counter changes.
C8_NonBlockingEnqueue ==
    [][ (NewCall /\ Decodable(NewMsg.Data)) =>
          /\ NewAction = "Ignore"
          /\ handled' = handled
          /\ droppedPool' = droppedPool
          /\ IF Len(backlogQueue) = txBacklogSize
             THEN /\ backlogQueue' = backlogQueue
                  /\ droppedBacklog' = droppedBacklog + 1
             ELSE /\ Len(backlogQueue') = Len(backlogQueue) + 1
                  /\ SubSeq(backlogQueue', 1, Len(backlogQueue)) = backlogQueue
                  /\ backlogQueue'[Len(backlogQueue')].rawmsg = NewMsg
                  /\ backlogQueue'[Len(backlogQueue')].unverifiedTxGroup
                        = GroupOf(NewMsg.Data)
                  /\ droppedBacklog' = droppedBacklog
      ]_vars

\* the last message found the queue full and was dropped
C8_Witness ==
    /\ calls # << >>
    /\ calls[Len(calls)].action = "Ignore"
    /\ hist[Len(calls)].dropB = 1
    /\ Len(backlogQueue) = txBacklogSize
    /\ droppedBacklog = 1

(* ------------------------------- C9 ----------------------------------- *)

Arrived == Cardinality({ i \in Called : Decodable(MsgOf(i).Data) })
TakenFromBacklog ==
    Cardinality({ i \in Called : hist[i].enq = 1 /\ InBacklog(i) = {} })

\* C9 as stated: of N > C decodable messages exactly N - C are dropped.
C9_AsStated ==
    Arrived > txBacklogSize => droppedBacklog = Arrived - txBacklogSize

\* C9 amended: the messages dropped and counted are exactly those that
\* found backlogQueue full: N - C of N >= C when the dispatcher has taken
\* none of them, and N - (items taken) - (items queued) in general, which is
\* less than N - C when the dispatcher takes items during the burst; every
\* item that was appended is eventually taken by a running dispatcher
\* unless Stop is called.
C9_DropsAndProgress ==
    /\ [](droppedBacklog = Arrived - TakenFromBacklog - Len(backlogQueue))
    /\ []((TakenFromBacklog = 0 /\ Arrived >= txBacklogSize) =>
             droppedBacklog = Arrived - txBacklogSize)
    /\ [](droppedBacklog =
             Cardinality({ i \in Called : hist[i].dropB = 1 }))
    /\ (pc # "new") ~>
          (cancelled \/ \A i \in Ids : hist[i].enq = 1 => hist[i].fr = 1)

\* a burst larger than the queue: one message dropped, the others handled
C9_Witness ==
    /\ Arrived = txBacklogSize + 1
    /\ droppedBacklog = 1
    /\ \A i \in Called : hist[i].enq = 1 => hist[i].fr = 1

(* ------------------------------- C10 ---------------------------------- *)

\* C10: no item is handled twice by any stage, and no item is in two
\* places at once.
C10_NoItemTwice ==
    \A i \in Ids :
        /\ hist[i].enq + hist[i].dropB <= 1
        /\ hist[i].fr <= 1
        /\ hist[i].sub <= 1
        /\ hist[i].res + hist[i].dropP <= 1
        /\ hist[i].post <= 1
        /\ hist[i].adm <= 1
        /\ Cardinality(InBacklog(i)) + Cardinality(InResults(i))
             + Cardinality(InTasks(i)) + Cardinality(InHand(i)) <= 1
        /\ Cardinality(RelaysOf(i)) + Cardinality(DisconnectsOf(i)) <= 1

\* an item has passed every stage once
C10_Witness ==
    \E i \in Ids :
        /\ hist[i].enq = 1
        /\ hist[i].fr = 1
        /\ hist[i].sub = 1
        /\ hist[i].res = 1
        /\ hist[i].post = 1

(* ------------------------------- C11 ---------------------------------- *)

\* a step in which a verification task ends for item i
TaskEnds(i) == InTasks(i) # {} /\ \A t \in tasks' : t.id # i

\* C11: every task the pool accepted is eventually run; a task that runs
\* ends in one step with exactly one of two outcomes: its item, carrying the
\* verification result, is appended to postVerificationQueue when there is
\* room, or the queue is left alone and the dropped-from-pool counter grows
\* by one when it is full.  A pending task can always run, whatever the
\* queue holds, and no task ends without one of the two outcomes.
C11_TaskEnqueuesOnceOrDrops ==
    /\ [](tasks # {} => ENABLED Worker)
    /\ [](\A i \in Ids :
            hist[i].res + hist[i].dropP + Cardinality(InTasks(i))
                = hist[i].sub)
    /\ [](droppedPool = Cardinality({ i \in Ids : hist[i].dropP = 1 }))
    /\ [][ \A i \in Ids :
             TaskEnds(i) =>
                IF Len(postVerificationQueue) < txBacklogSize
                THEN /\ Len(postVerificationQueue')
                           = Len(postVerificationQueue) + 1
                     /\ postVerificationQueue'[Len(postVerificationQueue')].id
                           = i
                     /\ hist'[i].res = hist[i].res + 1
                     /\ hist'[i].dropP = hist[i].dropP
                     /\ droppedPool' = droppedPool
                ELSE /\ postVerificationQueue' = postVerificationQueue
                     /\ hist'[i].dropP = hist[i].dropP + 1
                     /\ hist'[i].res = hist[i].res
                     /\ droppedPool' = droppedPool + 1
         ]_vars
    /\ (tasks # {}) ~>
          (\A i \in Ids : hist[i].sub = 1 => hist[i].res + hist[i].dropP = 1)

\* one task's result was appended, and another task, ending while that
\* result was still queued, dropped its item and counted it
C11_Witness ==
    /\ droppedPool = 1
    /\ tasks = {}
    /\ \E i \in Ids : \E j \in Ids :
          /\ hist[i].res = 1
          /\ hist[j].sub = 1
          /\ hist[j].dropP = 1

(* ------------------------------- C12 ---------------------------------- *)

\* the items that carry a verification result
Verified ==
    { postVerificationQueue[k] : k \in 1..Len(postVerificationQueue) }
        \cup (IF pc = "postprocess" THEN { cur[1] } ELSE {})

\* a step in which the dispatcher post-processes item i
PostProcesses(i) == hist'[i].post = hist[i].post + 1

\* C12: a result carries a verification error exactly when a transaction of
\* its message does not verify; when the dispatcher post-processes such a
\* result it calls Disconnect once, for the sender of the message, the pool
\* is unchanged, no Relay call is made, and the handled counter is
\* unchanged.
C12_ErrorDisconnectsOnly ==
    /\ [](\A wi \in Verified :
            (wi.verificationErr # 0) <=> ~AllVerify(wi.rawmsg.Data))
    /\ [][ \A i \in Ids :
             (PostProcesses(i) /\ cur[1].verificationErr # 0) =>
                /\ disconnects' =
                     Append(disconnects, [id |-> i, peer |-> MsgOf(i).Sender])
                /\ txPool' = txPool
                /\ relays' = relays
                /\ handled' = handled
                /\ hist'[i].adm = 0
         ]_vars

\* a message with a bad signature was post-processed, after a good one that
\* was counted as handled
C12_Witness ==
    /\ handled = 1
    /\ \E i \in Called :
          /\ ~AllVerify(MsgOf(i).Data)
          /\ hist[i].post = 1
          /\ DisconnectsOf(i) # {}
          /\ RelaysOf(i) = {}

(* ------------------------------- C13 ---------------------------------- *)

\* C13: the gossip handler answers Disconnect only to a message that has no
\* record or a record that does not decode, and the dispatcher calls
\* Disconnect only for the sender of a post-processed message one of whose
\* transactions does not verify.  An item stopped by the fast-reject filter
\* (pool test or ledger header), dropped at either full channel, or refused
\* by the pool when remembered leaves its sender connected.
C13_DisconnectOnlyMalformedOrInvalid ==
    /\ \A k \in 1..Len(disconnects) : disconnects[k].id \in Called
    /\ \A i \in Called :
          /\ calls[i].action = "Disconnect" => ~Decodable(MsgOf(i).Data)
          /\ \A k \in DisconnectsOf(i) :
                /\ Decodable(MsgOf(i).Data)
                /\ ~AllVerify(MsgOf(i).Data)
                /\ hist[i].post = 1
                /\ disconnects[k].peer = MsgOf(i).Sender
          /\ ( \/ hist[i].stop # "no"
               \/ hist[i].dropB = 1
               \/ hist[i].dropP = 1
               \/ (hist[i].post = 1 /\ hist[i].adm = 0
                      /\ AllVerify(MsgOf(i).Data)) ) =>
                /\ calls[i].action = "Ignore"
                /\ DisconnectsOf(i) = {}

\* a verified group was refused by the pool, which had remembered its
\* transaction meanwhile; nobody was disconnected
C13_Witness ==
    /\ disconnects = << >>
    /\ \E i \in Called : \E j \in Called :
          /\ hist[i].post = 1
          /\ hist[i].adm = 0
          /\ AllVerify(MsgOf(i).Data)
          /\ hist[j].adm = 1

(* --------------------------- solicited calls -------------------------- *)

SCalled == 1..Len(solicited)

\* a step that is a call of Handle, and the record of that call
NewHandle == Len(solicited') = Len(solicited) + 1
NewRecord == solicited'[Len(solicited')]

\* the fast-reject filter stops the group: the pool already holds one of
\* its transactions, or the ledger header cannot be read
FilterStops(group, pool, hdrOK) == Ran(group) \cap pool # {} \/ ~hdrOK

\* every transaction of the group has a good signature
GroupVerifies(group) == Ran(group) \cap BadSig = {}

(* ------------------------------- C14 ---------------------------------- *)

C15_AsStated ==
    \A k \in SCalled : solicited[k].err = "nil" => solicited[k].remembered

\* C15 amended: Handle returns an error exactly when the group passed the
\* fast-reject filter and one of its transactions failed verification, and
\* nil otherwise: nil is returned alike for a group that was admitted, for a
\* group the fast-reject filter stopped, and for a group the pool refused;
\* processDecoded's processingDone, which tells these apart, is discarded.
C15_ErrorOrNil ==
    \A k \in SCalled :
        LET c == solicited[k]
        IN  /\ c.err \in { "nil", "invlid transaction" }
            /\ c.err = "invlid transaction" <=>
                  /\ ~FilterStops(c.txgroup, c.pool, c.hdrOK)
                  /\ ~GroupVerifies(c.txgroup)
            /\ c.processingDone <=> ~c.remembered
            /\ c.remembered => c.err = "nil"

\* the fast-reject filter stopped a group whose signature is bad, and
\* Handle returned nil as it does for an admitted group
C15_Witness ==
    /\ solicited # << >>
    /\ FilterStops(solicited[1].txgroup, solicited[1].pool,
                   solicited[1].hdrOK)
    /\ ~GroupVerifies(solicited[1].txgroup)
    /\ solicited[1].processingDone
    /\ solicited[1].err = "nil"

(* ------------------------------- C16 ---------------------------------- *)

ConsumesBacklog ==
    /\ backlogQueue # << >>
    /\ backlogQueue' = << >> \/ Head(backlogQueue').id # Head(backlogQueue).id
ConsumesResult ==
    /\ postVerificationQueue # << >>
    /\ \/ postVerificationQueue' = << >>
       \/ Head(postVerificationQueue').id # Head(postVerificationQueue).id

\* a step of the dispatcher goroutine
DispatcherStep == pc' # pc /\ pc # "new"

Holders(i) ==
    Cardinality(InBacklog(i)) + Cardinality(InHand(i))
        + Cardinality(InTasks(i)) + Cardinality(InResults(i))

\* item i has left the pipeline: dropped at a full channel, stopped by the
\* fast-reject filter, or post-processed
Discarded(i) ==
    \/ hist[i].dropB = 1
    \/ hist[i].stop # "no"
    \/ hist[i].dropP = 1
    \/ hist[i].post = 1

\* C18: an item that exists is either discarded and held by nobody, or held
\* by exactly one of backlogQueue, the dispatcher, a task of the pool and
\* postVerificationQueue.  Its fields are written by its holder only: the
\* snapshot is still unset in backlogQueue and set in every later place, and
\* the verification error is unset wherever the task has not run yet.
C18_ExactlyOneHolder ==
    /\ \A i \in Ids :
          Holders(i) = IF hist[i].enq + hist[i].dropB = 1 /\ ~Discarded(i)
                       THEN 1 ELSE 0
    /\ \A k \in 1..Len(backlogQueue) :
          /\ backlogQueue[k].proto = 0
          /\ backlogQueue[k].spec = 0
          /\ backlogQueue[k].verificationErr = 0
    /\ \A t \in tasks :
          /\ t.proto # 0
          /\ t.spec # 0
          /\ t.verificationErr = 0
    /\ pc = "fastreject" =>
          /\ cur[1].proto = 0
          /\ cur[1].verificationErr = 0
    /\ \A wi \in Verified : wi.proto # 0 /\ wi.spec # 0

\* one item is with a task of the pool while the dispatcher holds another
\* one for the fast-reject filter
C18_Witness ==
    /\ pc = "fastreject"
    /\ \E i \in Ids : \E j \in Ids :
          /\ i # j
          /\ InTasks(i) # {}
          /\ InHand(j) # {}
          /\ Holders(i) = 1
          /\ Holders(j) = 1

(* ------------------------------- C19 ---------------------------------- *)

IdsOf(q) == [k \in 1..Len(q) |-> q[k].id]

Canonical(data) == [k \in 1..Len(data) |-> Rec(data[k].txid, "canon")]

\* C20: every Relay call of the dispatcher carries the canonical encoding
\* of each transaction of the group, in the group's order, and leaves out
\* the sender of the message; what it carries differs from the bytes
\* received whenever those were not canonical.
C20_RelayCanonicalExceptSender ==
    \A r \in 1..Len(relays) :
        /\ relays[r].id \in Called
        /\ relays[r].data = Canonical(MsgOf(relays[r].id).Data)
        /\ relays[r].except = MsgOf(relays[r].id).Sender
        /\ (\E k \in 1..Len(MsgOf(relays[r].id).Data) :
               MsgOf(relays[r].id).Data[k].form # "canon")
              => relays[r].data # MsgOf(relays[r].id).Data

\* a group that came in with a non-canonical first record was relayed
C20_Witness ==
    \E r \in 1..Len(relays) :
        /\ MsgOf(relays[r].id).Data[1].form = "alt"
        /\ Len(relays[r].data) = 2
        /\ relays[r].data # MsgOf(relays[r].id).Data
        /\ relays[r].except = "p2"

(* ------------------------------- C23 ---------------------------------- *)

\* a step in which the fast-reject filter stops item i
FilterStopsItem(i) == hist[i].stop = "no" /\ hist'[i].stop # "no"

\* C23: when checkAlreadyCommitted reports processingDone for the item the
\* dispatcher holds, because the pool holds one of its transactions or
\* because the header cannot be read, the step leaves pool tasks,
\* postVerificationQueue, the transaction pool and the network alone and
\* takes the dispatcher back to the head of its loop, where a step of it is
\* always possible; the item is held by nobody afterwards and never reaches
\* a later stage.
C23_StopDiscardsAndContinues ==
    /\ [][ \A i \in Ids :
             FilterStopsItem(i) =>
                /\ InHand(i) # {}
                /\ hist'[i].stop = IF Ran(cur[1].unverifiedTxGroup)
                                         \cap txPool # {}
                                   THEN "test" ELSE "header"
                /\ tasks' = tasks
                /\ postVerificationQueue' = postVerificationQueue
                /\ txPool' = txPool
                /\ relays' = relays
                /\ disconnects' = disconnects
                /\ counters' = counters
                /\ pc' = "select1"
                /\ cur' = << >>
         ]_vars
    /\ [](pc = "select1" => ENABLED Dispatcher)
    /\ [](\A i \in Ids :
            hist[i].stop # "no" =>
               /\ hist[i].sub = 0
               /\ hist[i].res = 0
               /\ hist[i].dropP = 0
               /\ hist[i].post = 0
               /\ hist[i].adm = 0
               /\ RelaysOf(i) = {}
               /\ Holders(i) = 0)

\* the first item was stopped because the header could not be read, and
\* the item after it went through to post-processing
C23_Witness ==
    /\ hist[1].stop = "header"
    /\ hist[2].post = 1

(* ------------------------------- C24 ---------------------------------- *)

\* C24: post-processing an item without verification error increments the
\* handled counter by one whether or not the pool then takes the group, and
\* calls Disconnect never; when the pool takes the group there is one Relay
\* call for it, when the pool refuses there is none and pool and network
\* are unchanged; either way the dispatcher goes back to the head of its
\* loop.  So the counter counts the error-free results, and an item was
\* relayed exactly when it was admitted.
C24_CountedThenAdmittedOrDropped ==
    /\ [][ \A i \in Ids :
             (PostProcesses(i) /\ cur[1].verificationErr = 0) =>
                /\ handled' = handled + 1
                /\ disconnects' = disconnects
                /\ pc' = "select1"
                /\ IF Ran(cur[1].unverifiedTxGroup) \cap txPool = {}
                   THEN /\ txPool' =
                              txPool \cup Ran(cur[1].unverifiedTxGroup)
                        /\ Len(relays') = Len(relays) + 1
                        /\ relays'[Len(relays')].id = i
                        /\ hist'[i].adm = 1
                   ELSE /\ txPool' = txPool
                        /\ relays' = relays
                        /\ hist'[i].adm = 0
         ]_vars
    /\ [](handled =
            Cardinality({ i \in Called :
                            hist[i].post = 1 /\ AllVerify(MsgOf(i).Data) }))
    /\ [](\A i \in Ids : RelaysOf(i) # {} <=> hist[i].adm = 1)

\* two error-free results were counted, the pool refused the second, and
\* there is one Relay call
C24_Witness ==
    /\ handled = 2
    /\ Len(relays) = 1
    /\ disconnects = << >>
    /\ \E i \in Called : hist[i].post = 1 /\ hist[i].adm = 0
    /\ pc # "exited"

(* ------------------------------- C28 ---------------------------------- *)

\* C28: of the messages that carry a given transaction at most one is
\* admitted and at most one is relayed, also when several of them passed
\* the fast-reject filter before any was admitted; a message whose group
\* verifies never costs its sender the connection.
C28_InFlightDuplicatesAdmittedOnce ==
    \A i \in Called : \A j \in Called :
        (i # j /\ Decodable(MsgOf(i).Data) /\ Decodable(MsgOf(j).Data)
              /\ AllVerify(MsgOf(i).Data) /\ AllVerify(MsgOf(j).Data)
              /\ TxidsOf(i) \cap TxidsOf(j) # {}) =>
            /\ hist[i].adm + hist[j].adm <= 1
            /\ Cardinality(RelaysOf(i)) + Cardinality(RelaysOf(j)) <= 1
            /\ DisconnectsOf(i) = {}
            /\ DisconnectsOf(j) = {}
            /\ (hist[i].adm = 1 \/ hist[j].adm = 1) =>
                  TxidsOf(i) \cap TxidsOf(j) \subseteq txPool

\* the same group came from two peers, both items passed the fast-reject
\* filter and were verified, and post-processing admitted one of them
C28_Witness ==
    /\ Len(calls) = 2
    /\ MsgOf(1).Data = MsgOf(2).Data
    /\ MsgOf(1).Sender # MsgOf(2).Sender
    /\ hist[1].sub = 1
    /\ hist[2].sub = 1
    /\ hist[1].post = 1
    /\ hist[2].post = 1
    /\ hist[1].adm + hist[2].adm = 1
    /\ Len(relays) = 1

(* ------------------------------- C25 ---------------------------------- *)

\* every item that is somewhere in the pipeline
ItemsNow ==
    { backlogQueue[k] : k \in 1..Len(backlogQueue) }
        \cup { cur[k] : k \in 1..Len(cur) }
        \cup tasks
        \cup { postVerificationQueue[k] :
                  k \in 1..Len(postVerificationQueue) }

\* C25: an item's snapshot (proto, spec) is unset until the step in which
\* the fast-reject filter hands the item to the pool, is set in that step
\* from the header of the round that is the latest then, and is the same
\* in every later place of the item, whatever the ledger does meanwhile.
C25_SnapshotWrittenOnce ==
    /\ [][ \A x \in ItemsNow : \A y \in ItemsNow' :
             x.id = y.id =>
                IF x.proto # 0 \/ x.spec # 0
                THEN y.proto = x.proto /\ y.spec = x.spec
                ELSE \/ y.proto = 0 /\ y.spec = 0
                     \/ /\ pc = "fastreject"
                        /\ y \in tasks'
                        /\ y.proto = HdrProtocol(latest)
                        /\ y.spec = HdrSpecial(latest)
         ]_vars
    /\ [](\A x \in tasks \cup Verified :
            \E rnd \in Rounds :
               /\ rnd <= latest
               /\ x.proto = HdrProtocol(rnd)
               /\ x.spec = HdrSpecial(rnd))

\* a result carries the snapshot of round 0 although the ledger has
\* moved on to round 1
C25_Witness ==
    /\ latest = 1
    /\ \E x \in Verified :
          /\ x.proto = HdrProtocol(0)
          /\ x.spec = HdrSpecial(0)

(* ------------------------------- C27 ---------------------------------- *)

\* items the fast-reject filter has discarded
StoppedItems == Cardinality({ i \in Ids : hist[i].stop # "no" })

MaxGroup == 3

\* the transactions the groups are made of
VTxids == {1, 2} \cup BadSig

VGroups == UNION { [1..n -> VTxids] : n \in 1..MaxGroup }

\* the loop of asyncVerifySignature: how many times it calls verify.Txn
RECURSIVE verifyCalls(_, _, _)
verifyCalls(group, spec, proto) ==
    IF group = << >> THEN 0
    ELSE IF VerifyTxn(Head(group), spec, proto) # 0 THEN 1
         ELSE 1 + verifyCalls(Tail(group), spec, proto)

VerifyInit ==
    /\ HandlerInit
    /\ LsigIdle
    /\ WalletIdle
    /\ DbIdle
    /\ vgroup \in VGroups
    /\ vresult = << >>

\* the task runs its loop on the group
VerifyGroup ==
    /\ vresult = << >>
    /\ vresult' = << [err |-> verifyLoop(vgroup, HdrSpecial(0),
                                         HdrProtocol(0)),
                      calls |-> verifyCalls(vgroup, HdrSpecial(0),
                                            HdrProtocol(0))] >>
    /\ UNCHANGED << vgroup, handlerVars, lsigVars, walletVars, dbVars >>

VerifySpec == VerifyInit /\ [][VerifyGroup]_vars

(* ------------------------------- C26 ---------------------------------- *)

\* the places of the group whose transaction does not verify
Failing(group) == { k \in 1..Len(group) : group[k] \in BadSig }

\* C26: the task hands the transactions to verify.Txn in the group's order
\* up to and including the first one that fails; the error it leaves is
\* that transaction's, and it leaves none exactly when every transaction
\* verifies, having then verified them all.
C26_StopsAtFirstFailure ==
    vresult # << >> =>
        IF Failing(vgroup) = {}
        THEN /\ vresult[1].err = 0
             /\ vresult[1].calls = Len(vgroup)
        ELSE LET first == CHOOSE k \in Failing(vgroup) :
                              \A j \in Failing(vgroup) : k <= j
             IN  /\ vresult[1].err = vgroup[first]
                 /\ vresult[1].err # 0
                 /\ vresult[1].calls = first

\* a group whose second and third transactions both fail, differently: the
\* error is the second one's and the third was not verified
C26_Witness ==
    /\ vresult # << >>
    /\ Len(vgroup) = 3
    /\ Failing(vgroup) = {2, 3}
    /\ vgroup[2] # vgroup[3]
    /\ vresult[1].err = vgroup[2]
    /\ vresult[1].calls = 2

(* ----------------------------- LogicSig.Equal ------------------------- *)

\* byte strings for Logic and for the arguments
Logics == { << >>, << 1 >>, << 2 >> }
ArgLists == { << >>, << << >> >>, << << 1 >> >>, << << 2 >> >>,
              << << 1 >>, << 2 >> >>, << << 2 >>, << 1 >> >> }

\* signatures and multisignatures are named by a number, 0 the zero value
LogicSigs ==
    [Logic : Logics, Sig : {0, 1}, Msig : {0, 1}, Args : ArgLists]

\* crypto.MultisigSig.Equal and bytes.Equal
MsigEqual(m1, m2) == m1 = m2
BytesEqual(x, y) == x = y

\* Blank: there is no content in this LogicSig
Blank(l) == Len(l.Logic) = 0

\* the loop over lsig.Args, from argument i on
RECURSIVE argsLoop(_, _, _)
argsLoop(args, bargs, i) ==
    IF i > Len(args) THEN TRUE
    ELSE IF ~BytesEqual(args[i], bargs[i]) THEN FALSE
         ELSE argsLoop(args, bargs, i + 1)

\* LogicSig.Equal
Equal(l, bb) ==
    IF Len(l.Logic) = 0 /\ Len(bb.Logic) = 0
    THEN TRUE
    ELSE IF ~(l.Sig = bb.Sig /\ MsigEqual(l.Msig, bb.Msig))
         THEN FALSE
         ELSE IF Len(l.Args) # Len(bb.Args)
              THEN FALSE
              ELSE argsLoop(l.Args, bb.Args, 1)

LsigInit ==
    /\ HandlerInit
    /\ VerifyIdle
    /\ WalletIdle
    /\ DbIdle
    /\ lsig \in LogicSigs
    /\ b \in LogicSigs
    /\ equal = << >>

\* the call lsig.Equal(b)
CallEqual ==
    /\ equal = << >>
    /\ equal' = << Equal(lsig, b) >>
    /\ UNCHANGED << lsig, b, handlerVars, verifyVars, walletVars, dbVars >>

LsigSpec == LsigInit /\ [][CallEqual]_vars

(* ------------------------------- C22 ---------------------------------- *)

\* C22: lsig.Equal(b) is true exactly when both are blank, or Logic, Sig,
\* Msig and Args (in order) are the same.
C22_AsStated ==
    equal # << >> =>
        (equal[1] <=>
            \/ Blank(lsig) /\ Blank(b)
            \/ /\ lsig.Logic = b.Logic
               /\ lsig.Sig = b.Sig
               /\ lsig.Msig = b.Msig
               /\ lsig.Args = b.Args)

(* ------------------- LedgerWallet.sendTransactionMsgpack -------------- *)

ledgerClass == 128
ledgerInsSignMsgpack == 8
ledgerP1first == 0
ledgerP1more == 128
ledgerP2last == 0
ledgerP2more == 128
chunkSize == 250

\* longest encoded transaction
MaxLen == 501

\* protocol.Encode(tx): an encoding of length n, its bytes told apart by
\* their place
Encoded(n) == [i \in 1..n |-> i % 256]

\* the most exchanges a transaction of up to MaxLen bytes takes
MaxExchanges == (MaxLen \div chunkSize) + 1

\* mutant: the chunk is cut when the rest is at least chunkSize long
RECURSIVE sendLoop_CutAtEqual(_, _, _, _, _)
sendLoop_CutAtEqual(rest, p1, p2, sent, failAt) ==
    IF p2 = ledgerP2last
    THEN [err |-> FALSE, sent |-> sent]
    ELSE LET cut == Len(rest) >= chunkSize
             chunk == IF cut THEN SubSeq(rest, 1, chunkSize) ELSE rest
             p2n == IF cut THEN p2 ELSE ledgerP2last
             msg == << ledgerClass, ledgerInsSignMsgpack, p1, p2n,
                       Len(chunk) % 256 >> \o chunk
         IN  IF Len(sent) + 1 = failAt
             THEN [err |-> TRUE, sent |-> Append(sent, msg)]
             ELSE sendLoop_CutAtEqual(
                      SubSeq(rest, Len(chunk) + 1, Len(rest)),
                      ledgerP1more, p2n, Append(sent, msg), failAt)

\* the loop of sendTransactionMsgpack: what is left to send, p1, p2, the
\* messages exchanged so far; the device fails the exchange number failAt
RECURSIVE sendLoop(_, _, _, _, _)
sendLoop(rest, p1, p2, sent, failAt) ==
    IF p2 = ledgerP2last
    THEN [err |-> FALSE, sent |-> sent]
    ELSE LET cut == Len(rest) > chunkSize
             chunk == IF cut THEN SubSeq(rest, 1, chunkSize) ELSE rest
             p2n == IF cut THEN p2 ELSE ledgerP2last
             msg == << ledgerClass, ledgerInsSignMsgpack, p1, p2n,
                       Len(chunk) % 256 >> \o chunk
         IN  IF Len(sent) + 1 = failAt
             THEN [err |-> TRUE, sent |-> Append(sent, msg)]
             ELSE sendLoop(SubSeq(rest, Len(chunk) + 1, Len(rest)),
                           ledgerP1more, p2n, Append(sent, msg), failAt)

WalletInit ==
    /\ HandlerInit
    /\ LsigIdle
    /\ VerifyIdle
    /\ DbIdle
    /\ \E n \in 0..MaxLen : tosend = Encoded(n)
    /\ devErrAt \in 0..MaxExchanges
    /\ replyLong \in BOOLEAN
    /\ exchanges = << >>
    /\ signErr = << >>

\* one call of sendTransactionMsgpack
sendTransactionMsgpack ==
    /\ signErr = << >>
    /\ LET r == sendLoop(tosend, ledgerP1first, ledgerP2more, << >>,
                         devErrAt)
       IN  /\ exchanges' = r.sent
           /\ signErr' = << IF r.err THEN "exchange"
                            ELSE IF replyLong THEN "decoding" ELSE "nil" >>
    /\ UNCHANGED << tosend, devErrAt, replyLong, handlerVars, lsigVars,
                    verifyVars, dbVars >>

WalletSpec == WalletInit /\ [][sendTransactionMsgpack]_vars

(* ------------------------------- C29 ---------------------------------- *)

\* the exchanges an encoding of length n takes
Chunks(n) == IF n = 0 THEN 1 ELSE (n + chunkSize - 1) \div chunkSize

\* the payload of a message: what follows the five header bytes
Payload(msg) == SubSeq(msg, 6, Len(msg))

RECURSIVE Concat(_)
Concat(msgs) ==
    IF msgs = << >> THEN << >>
    ELSE Payload(Head(msgs)) \o Concat(Tail(msgs))

\* C29: without a failing exchange the driver sends Chunks(L) messages,
\* with one it sends the messages up to the failing one and returns its
\* error.  Every message has the class and instruction bytes, P1 = first
\* in the first message and more in the others, P2 = last in message
\* Chunks(L) and more in the others, a length byte that is the payload's
\* length, at most chunkSize; the payloads, in order, make up the encoding
\* (a prefix of it when an exchange failed).
C29_ChunkedSigning ==
    signErr # << >> =>
        LET n == Chunks(Len(tosend))
            failed == devErrAt \in 1..n
        IN  /\ Len(exchanges) = IF failed THEN devErrAt ELSE n
            /\ (signErr[1] = "exchange") <=> failed
            /\ \A k \in 1..Len(exchanges) :
                  /\ exchanges[k][1] = ledgerClass
                  /\ exchanges[k][2] = ledgerInsSignMsgpack
                  /\ exchanges[k][3] =
                        IF k = 1 THEN ledgerP1first ELSE ledgerP1more
                  /\ exchanges[k][4] =
                        IF k = n THEN ledgerP2last ELSE ledgerP2more
                  /\ exchanges[k][5] = Len(Payload(exchanges[k]))
                  /\ Len(Payload(exchanges[k])) <= chunkSize
                  /\ k < n => Len(Payload(exchanges[k])) = chunkSize
            /\ Concat(exchanges) =
                  SubSeq(tosend, 1, Len(Concat(exchanges)))
            /\ ~failed => Concat(exchanges) = tosend

\* an encoding of two full chunks was sent in two exchanges, the second
\* one marked last
C29_Witness ==
    /\ signErr = << "nil" >>
    /\ Len(tosend) = 2 * chunkSize
    /\ Len(exchanges) = 2
    /\ exchanges[1][4] = ledgerP2more
    /\ exchanges[2][3] = ledgerP1more
    /\ exchanges[2][4] = ledgerP2last
    /\ exchanges[2][5] = chunkSize

\* ------------------------------------------------------------------------
\* The database accessor tests: TestDBConcurrency and TestDBConcurrencyRW.
\* Two accessors are open on one database file: acc writes, acc2 is
\* read-only.  The accessor itself is outside the sources; what the tests
\* require of it is modelled here: a write transaction collects its inserts
\* and publishes them at commit, a read transaction sees the committed rows.

MaxInserts == 2

\* acc.Atomic opens a write transaction: nothing inserted yet
AtomicBegin == << {} >>

\* tx.Exec("INSERT ..."): the row joins the open transaction
Exec(w, row) == << w[1] \cup {row} >>

\* acc.Atomic returns nil: the inserts reach the file together
AtomicCommit(file, w) == file \cup w[1]

\* a read that also counts the rows of the open write transaction
QueryRowCount_Dirty(file, w) ==
    Cardinality(file \cup (IF w = << >> THEN {} ELSE w[1]))

\* acc2.Atomic with SELECT COUNT(*): the number of committed rows
QueryRowCount(file, w) ==
    Cardinality(file)

\* acc2.Atomic with SELECT a FROM t WHERE a=id: is the row committed
QueryRowSelect(file, w, id) == id \in file

Readers == {"r1", "r2"}

\* the statements of TestDBConcurrency's main goroutine, in order
MainNext ==
    [read1 |-> "send_c2a", send_c2a |-> "recv_c1a", recv_c1a |-> "read2",
     read2 |-> "send_c2b", send_c2b |-> "recv_c1b", recv_c1b |-> "read3",
     read3 |-> "done"]

\* the statements of TestDBConcurrency's goroutine, in order
GNext ==
    [begin |-> "recv_c2a", recv_c2a |-> "insert2", insert2 |-> "send_c1a",
     send_c1a |-> "recv_c2b", recv_c2b |-> "insert3", insert3 |-> "commit",
     commit |-> "send_c1b", send_c1b |-> "done"]

ReadPcs == {"read1", "read2", "read3"}

\* the state in which one of the two tests starts its goroutines
DbInit ==
    /\ HandlerInit
    /\ LsigIdle
    /\ VerifyIdle
    /\ WalletIdle
    /\ dbTest \in {"Concurrency", "RW"}
    /\ committed = IF dbTest = "Concurrency" THEN {1} ELSE {}
    /\ wtx = << >>
    /\ tpc = IF dbTest = "Concurrency"
             THEN [main |-> "read1", g |-> "begin", w |-> "done",
                   r1 |-> "done", r2 |-> "done"]
             ELSE [main |-> "done", g |-> "done", w |-> "begin",
                   r1 |-> "wait", r2 |-> "wait"]
    /\ nrows = << >>
    /\ lastInsert = 0
    /\ started = FALSE
    /\ writerI = 1
    /\ rid = [r1 |-> 0, r2 |-> 0]
    /\ selects = {}

\* TestDBConcurrency, goroutine: acc.Atomic opens the transaction
GBegin ==
    /\ tpc.g = "begin"
    /\ wtx = << >>
    /\ wtx' = AtomicBegin
    /\ tpc' = [tpc EXCEPT !.g = GNext[tpc.g]]
    /\ UNCHANGED << dbTest, committed, nrows, lastInsert, started, writerI,
                    rid, selects >>
    /\ UNCHANGED << handlerVars, lsigVars, verifyVars, walletVars >>

\* TestDBConcurrency, goroutine: INSERT 2, then INSERT 3
GInsert ==
    /\ tpc.g \in {"insert2", "insert3"}
    /\ wtx' = Exec(wtx, IF tpc.g = "insert2" THEN 2 ELSE 3)
    /\ tpc' = [tpc EXCEPT !.g = GNext[tpc.g]]
    /\ UNCHANGED << dbTest, committed, nrows, lastInsert, started, writerI,
                    rid, selects >>
    /\ UNCHANGED << handlerVars, lsigVars, verifyVars, walletVars >>

\* TestDBConcurrency, goroutine: the function returns nil, Atomic commits
GCommit ==
    /\ tpc.g = "commit"
    /\ committed' = AtomicCommit(committed, wtx)
    /\ wtx' = << >>
    /\ tpc' = [tpc EXCEPT !.g = GNext[tpc.g]]
    /\ UNCHANGED << dbTest, nrows, lastInsert, started, writerI, rid,
                    selects >>
    /\ UNCHANGED << handlerVars, lsigVars, verifyVars, walletVars >>

\* TestDBConcurrency: main sends on c2 and the goroutine receives
HandshakeC2 ==
    /\ tpc.main \in {"send_c2a", "send_c2b"}
    /\ tpc.g \in {"recv_c2a", "recv_c2b"}
    /\ tpc' = [tpc EXCEPT !.main = MainNext[tpc.main], !.g = GNext[tpc.g]]
    /\ UNCHANGED << dbTest, committed, wtx, nrows, lastInsert, started,
                    writerI, rid, selects >>
    /\ UNCHANGED << handlerVars, lsigVars, verifyVars, walletVars >>

\* TestDBConcurrency: the goroutine sends on c1 and main receives
HandshakeC1 ==
    /\ tpc.g \in {"send_c1a", "send_c1b"}
    /\ tpc.main \in {"recv_c1a", "recv_c1b"}
    /\ tpc' = [tpc EXCEPT !.main = MainNext[tpc.main], !.g = GNext[tpc.g]]
    /\ UNCHANGED << dbTest, committed, wtx, nrows, lastInsert, started,
                    writerI, rid, selects >>
    /\ UNCHANGED << handlerVars, lsigVars, verifyVars, walletVars >>

\* TestDBConcurrency: main counts the rows through acc2.  Each entry of
\* nrows keeps the count together with the open write transaction and the
\* committed rows at the time of the read.
CountRows ==
    /\ tpc.main \in ReadPcs
    /\ nrows' = Append(nrows, [n |-> QueryRowCount(committed, wtx),
                               open |-> wtx, file |-> committed])
    /\ tpc' = [tpc EXCEPT !.main = MainNext[tpc.main]]
    /\ UNCHANGED << dbTest, committed, wtx, lastInsert, started, writerI,
                    rid, selects >>
    /\ UNCHANGED << handlerVars, lsigVars, verifyVars, walletVars >>

\* TestDBConcurrencyRW, writer: acc.Atomic opens the transaction
WBegin ==
    /\ tpc.w = "begin"
    /\ wtx = << >>
    /\ wtx' = AtomicBegin
    /\ tpc' = [tpc EXCEPT !.w = "insert"]
    /\ UNCHANGED << dbTest, committed, nrows, lastInsert, started, writerI,
                    rid, selects >>
    /\ UNCHANGED << handlerVars, lsigVars, verifyVars, walletVars >>

\* TestDBConcurrencyRW, writer: INSERT INTO t (a) VALUES (i)
WInsert ==
    /\ tpc.w = "insert"
    /\ wtx' = Exec(wtx, writerI)
    /\ tpc' = [tpc EXCEPT !.w = "commit"]
    /\ UNCHANGED << dbTest, committed, nrows, lastInsert, started, writerI,
                    rid, selects >>
    /\ UNCHANGED << handlerVars, lsigVars, verifyVars, walletVars >>

\* TestDBConcurrencyRW, writer: Atomic commits and returns nil
WCommit ==
    /\ tpc.w = "commit"
    /\ committed' = AtomicCommit(committed, wtx)
    /\ wtx' = << >>
    /\ tpc' = [tpc EXCEPT !.w = "store"]
    /\ UNCHANGED << dbTest, nrows, lastInsert, started, writerI, rid,
                    selects >>
    /\ UNCHANGED << handlerVars, lsigVars, verifyVars, walletVars >>

\* TestDBConcurrencyRW, writer: store lastInsert, close started after the
\* first insert
WStore ==
    /\ tpc.w = "store"
    /\ lastInsert' = writerI
    /\ started' = (started \/ writerI = 1)
    /\ tpc' = [tpc EXCEPT !.w = "timer"]
    /\ UNCHANGED << dbTest, committed, wtx, nrows, writerI, rid, selects >>
    /\ UNCHANGED << handlerVars, lsigVars, verifyVars, walletVars >>

\* TestDBConcurrencyRW, writer: the select on the timer ends the loop or
\* lets it go on with i+1; the timer has fired by the last insert
WLoop ==
    /\ tpc.w = "timer"
    /\ \/ /\ writerI < MaxInserts
          /\ writerI' = writerI + 1
          /\ tpc' = [tpc EXCEPT !.w = "begin"]
       \/ /\ writerI' = writerI
          /\ tpc' = [tpc EXCEPT !.w = "exit"]
    /\ UNCHANGED << dbTest, committed, wtx, nrows, lastInsert, started, rid,
                    selects >>
    /\ UNCHANGED << handlerVars, lsigVars, verifyVars, walletVars >>

\* TestDBConcurrencyRW, writer: the deferred store of -1
WExit ==
    /\ tpc.w = "exit"
    /\ lastInsert' = -1
    /\ tpc' = [tpc EXCEPT !.w = "done"]
    /\ UNCHANGED << dbTest, committed, wtx, nrows, started, writerI, rid,
                    selects >>
    /\ UNCHANGED << handlerVars, lsigVars, verifyVars, walletVars >>

\* TestDBConcurrencyRW, reader: started is closed
RWait(r) ==
    /\ tpc[r] = "wait"
    /\ started
    /\ tpc' = [tpc EXCEPT ![r] = "load"]
    /\ UNCHANGED << dbTest, committed, wtx, nrows, lastInsert, started,
                    writerI, rid, selects >>
    /\ UNCHANGED << handlerVars, lsigVars, verifyVars, walletVars >>

\* TestDBConcurrencyRW, reader: load lastInsert, leave when it is 0 or
\* negative
RLoad(r) ==
    /\ tpc[r] = "load"
    /\ rid' = [rid EXCEPT ![r] = lastInsert]
    /\ tpc' = [tpc EXCEPT ![r] = IF lastInsert <= 0 THEN "done" ELSE "select"]
    /\ UNCHANGED << dbTest, committed, wtx, nrows, lastInsert, started,
                    writerI, selects >>
    /\ UNCHANGED << handlerVars, lsigVars, verifyVars, walletVars >>

\* TestDBConcurrencyRW, reader: select the row through acc2
RSelect(r) ==
    /\ tpc[r] = "select"
    /\ selects' = selects \cup
           {[id |-> rid[r], found |-> QueryRowSelect(committed, wtx, rid[r]),
             open |-> wtx]}
    /\ tpc' = [tpc EXCEPT ![r] = "load"]
    /\ UNCHANGED << dbTest, committed, wtx, nrows, lastInsert, started,
                    writerI, rid >>
    /\ UNCHANGED << handlerVars, lsigVars, verifyVars, walletVars >>

DbNext ==
    \/ GBegin
    \/ GInsert
    \/ GCommit
    \/ HandshakeC2
    \/ HandshakeC1
    \/ CountRows
    \/ WBegin
    \/ WInsert
    \/ WCommit
    \/ WStore
    \/ WLoop
    \/ WExit
    \/ \E r \in Readers : RWait(r)
    \/ \E r \in Readers : RLoad(r)
    \/ \E r \in Readers : RSelect(r)

DbSpec == DbInit /\ [][DbNext]_vars

====
